---- MODULE Spec2Model ----
(***************************************************************************)
(* The email triage toolkit: scripts/triage_emails.py (the triage run, the *)
(* sender matcher and the domain extractor) and scripts/sample_emails.py   *)
(* (the sampling tool).                                                    *)
(*                                                                         *)
(* A text (a Python str) is a sequence of one-character strings.  A file   *)
(* name is a number: name i is the i-th name in the order of sorted().     *)
(* A folder is a function from the names of its files to their contents.   *)
(***************************************************************************)
EXTENDS Integers, Sequences, FiniteSets, TLC

\* ------------------------------------------------------------------ bounds
NumNames == 2      \* distinct file names a folder may hold
MaxRuns == 2       \* triage runs in one behaviour
MaxIngest == 1     \* files the upstream ingestion adds between runs
MaxLen == 4        \* length of the free part of a sender text (domain extractor)
MaxPre == 1        \* length of the part of a sender text before the padding
MaxCount == 3      \* largest count given to the sampling tool

\* ------------------------------------------------------------- str methods
UpperToLower ==
    [c \in {"A","B","C","D","E","F","G","H","I","J","K","L","M",
            "N","O","P","Q","R","S","T","U","V","W","X","Y","Z"} |->
       CASE c = "A" -> "a" [] c = "B" -> "b" [] c = "C" -> "c" [] c = "D" -> "d"
         [] c = "E" -> "e" [] c = "F" -> "f" [] c = "G" -> "g" [] c = "H" -> "h"
         [] c = "I" -> "i" [] c = "J" -> "j" [] c = "K" -> "k" [] c = "L" -> "l"
         [] c = "M" -> "m" [] c = "N" -> "n" [] c = "O" -> "o" [] c = "P" -> "p"
         [] c = "Q" -> "q" [] c = "R" -> "r" [] c = "S" -> "s" [] c = "T" -> "t"
         [] c = "U" -> "u" [] c = "V" -> "v" [] c = "W" -> "w" [] c = "X" -> "x"
         [] c = "Y" -> "y" [] c = "Z" -> "z"]

\* str.lower()
lower(s) ==
    [i \in 1..Len(s) |-> IF s[i] \in DOMAIN UpperToLower THEN UpperToLower[s[i]] ELSE s[i]]

\* pattern in text
Contains(pattern, text) ==
    \E i \in 0..(Len(text) - Len(pattern)) :
        SubSeq(text, i + 1, i + Len(pattern)) = pattern

\* text.find(ch) + 1: the index of the first ch of text, 0 when there is none
Find(ch, text) ==
    IF \E i \in 1..Len(text) : text[i] = ch
    THEN CHOOSE i \in 1..Len(text) : text[i] = ch /\ \A j \in 1..(i - 1) : text[j] # ch
    ELSE 0

\* text.split(ch): the parts of text between the occurrences of ch
RECURSIVE split(_, _)
split(text, ch) ==
    LET i == Find(ch, text)
    IN  IF i = 0 THEN <<text>>
        ELSE <<SubSeq(text, 1, i - 1)>> \o split(SubSeq(text, i + 1, Len(text)), ch)

\* text[:n]
Prefix(text, n) == SubSeq(text, 1, IF Len(text) < n THEN Len(text) ELSE n)

\* ------------------------------------------------------------ sender sets
ARCHIVE_SENDERS == {
    <<"h","o","n","e","y","b","i","r","d","e","t","t","e",".","c","o","m">>,  \* honeybirdette.com
    <<"e",".","i","n","c",".","c","o","m">>,  \* e.inc.com
    <<"s","e","r","v","i","c","e",".","t","i","k","t","o","k",".","c","o","m">>,  \* service.tiktok.com
    <<"a",".","g","r","u","b","h","u","b",".","c","o","m">>,  \* a.grubhub.com
    <<"o","c","a","s","i","o","c","o","r","t","e","z",".","c","o","m">>,  \* ocasiocortez.com
    <<"e","4",".","r","o","v","e","r",".","c","o","m">>,  \* e4.rover.com
    <<"p","e","t","f","o","o","d",".","e","x","p","r","e","s","s">>,  \* petfood.express
    <<"s","u","b","s","t","a","c","k",".","c","o","m">>,  \* substack.com
    <<"p","i","r","a","t","e","w","i","r","e","s",".","c","o","m">>,  \* piratewires.com
    <<"e","m","a","i","l",".","n","a","n","i","t",".","c","o","m">>,  \* email.nanit.com
    <<"n","e","w","s",".","t","h","e","b","u","m","p",".","c","o","m">>,  \* news.thebump.com
    <<"e","m","a","i","l",".","c","h","i","p","o","t","l","e",".","c","o","m">>,  \* email.chipotle.com
    <<"m","a","i","l",".","t","o","o","g","o","o","d","t","o","g","o",".","c","o","m">>,  \* mail.toogoodtogo.com
    <<"d","e","f","a","u","l","t","k","i","n","g","s",".","c","o","m">>,  \* defaultkings.com
    <<"t","h","e","t","i","e","b","a","r",".","c","o","m">>,  \* thetiebar.com
    <<"l","i","s","t","i",".","j","p","b","e","r","l","i","n",".","d","e">>,  \* listi.jpberlin.de
    <<"v","o","i","c","e","-","n","o","r","e","p","l","y","@","g","o","o","g","l","e",".","c","o","m">>,  \* voice-noreply@google.com
    <<"n","o","t","i","f","i","c","a","t","i","o","n","s","@","b","u","g","s","n","a","g",".","c","o","m">>,  \* notifications@bugsnag.com
    <<"s","q","u","a","r","e","m","k","t","g",".","c","o","m">>,  \* squaremktg.com
    <<"t","x","t",".","v","o","i","c","e",".","g","o","o","g","l","e",".","c","o","m">>,  \* txt.voice.google.com
    <<"n","o","r","e","p","l","y","@","b","a","m","b","u","l","a","b",".","c","o","m">>,  \* noreply@bambulab.com
    <<"g","u","s","t","o",".","c","o","m">>,  \* gusto.com
    <<"i","n","f","o","r","m",".","b","i","l","l",".","c","o","m">>,  \* inform.bill.com
    <<"n","o","-","r","e","p","l","y","@","d","i","g","i","k","e","y",".","c","o","m">>,  \* no-reply@digikey.com
    <<"n","o","t","i","f","i","c","a","t","i","o","n",".","i","n","t","u","i","t",".","c","o","m">>,  \* notification.intuit.com
    <<"N","o","R","e","p","l","y",".","O","D","D","@","d","h","l",".","c","o","m">>,  \* NoReply.ODD@dhl.com
    <<"n","o","-","r","e","p","l","y","-","a","w","s","@","a","m","a","z","o","n",".","c","o","m">>,  \* no-reply-aws@amazon.com
    <<"c","l","o","u","d","p","l","a","t","f","o","r","m","-","n","o","r","e","p","l","y","@","g","o","o","g","l","e",".","c","o","m">>,  \* cloudplatform-noreply@google.com
    <<"n","o","-","r","e","p","l","y","@","a","c","c","o","u","n","t","s",".","g","o","o","g","l","e",".","c","o","m">>,  \* no-reply@accounts.google.com
    <<"w","o","r","k","s","p","a","c","e","-","n","o","r","e","p","l","y","@","g","o","o","g","l","e",".","c","o","m">>,  \* workspace-noreply@google.com
    <<"n","o","-","r","e","p","l","y","@","a","m","a","z","o","n",".","c","o","m">>,  \* no-reply@amazon.com
    <<"n","o","-","r","e","p","l","y","@","p","a","t","r","e","o","n",".","c","o","m">>,  \* no-reply@patreon.com
    <<"n","o","-","r","e","p","l","y","@","m","a","i","l","c","h","i","m","p",".","c","o","m">>,  \* no-reply@mailchimp.com
    <<"d","o","n","o","t","r","e","p","l","y","@","a","p","p","f","o","l","i","o",".","c","o","m">>,  \* donotreply@appfolio.com
    <<"d","o","n","o","t","r","e","p","l","y","@","o","n","l","i","n","e","p","o","r","t","a","l",".","a","p","p","f","o","l","i","o",".","c","o","m">>,  \* donotreply@onlineportal.appfolio.com
    <<"m","e","m","b","e","r","s",".","m","o","b","i","l","i","z","e",".","i","o">>,  \* members.mobilize.io
    <<"c","a","t","a","l","y","s","t","c","a","m","p","u","s",".","o","r","g">>,  \* catalystcampus.org
    <<"i","n","f","o","@","p","r","u","s","a","3","d",".","c","o","m">>,  \* info@prusa3d.com
    <<"p","a","y","m","e","n","t","s","-","n","o","r","e","p","l","y","@","g","o","o","g","l","e",".","c","o","m">>,  \* payments-noreply@google.com
    <<"s","t","e","l","l","e","r","a","r","t","s",".","c","o","m">>,  \* stellerarts.com
    <<"d","r","i","v","e","-","s","h","a","r","e","s","-","d","m","-","n","o","r","e","p","l","y","@","g","o","o","g","l","e",".","c","o","m">>,  \* drive-shares-dm-noreply@google.com
    <<"s","i","m","o","n","-","m","a","i","l",".","g","r","o","o","m","e","t","r","a","n","s","p","o","r","t","a","t","i","o","n",".","c","o","m">>,  \* simon-mail.groometransportation.com
    <<"n","o","r","e","p","l","y","@","q","e","m","a","i","l","s","e","r","v","e","r",".","c","o","m">>,  \* noreply@qemailserver.com
    <<"n","o","t","i","f","i","c","a","t","i","o","n","s",".","i","n","t","u","i","t",".","c","o","m">>,  \* notifications.intuit.com
    <<"e","m","a","i","l",".","s","l","a","c","k","h","q",".","c","o","m">>,  \* email.slackhq.com
    <<"a","d","e","o","i","n","t","e","r","a","c","t","i","v","e",".","c","o","m">>,  \* adeointeractive.com
    <<"c","p","s",".","i","a","u",".","o","r","g">>,  \* cps.iau.org
    <<"e","m","a","i","l",".","c","l","a","u","d","e",".","c","o","m">>,  \* email.claude.com
    <<"i","n","f","o","@","p","r","i","n","t","a","b","l","e","s",".","c","o","m">>,  \* info@printables.com
    <<"q","u","a","l","t","r","i","c","s","-","r","e","s","e","a","r","c","h",".","c","o","m">>,  \* qualtrics-research.com
    <<"P","u","b","l","i","c","a","t","i","o","n","s",".","s","p","i","e",".","o","r","g">>,  \* Publications.spie.org
    <<"i","n","f","o","@","s","w","f","o","u","n","d",".","o","r","g">>,  \* info@swfound.org
    <<"n","o","-","r","e","p","l","y","@","l","o","g","i","n",".","g","o","v">>,  \* no-reply@login.gov
    <<"d","r","a","n","g","k","r","o","m","e","e","t",".","c","o","m">>,  \* drangkromeet.com
    <<"s","e","c","o","n","d","t","i","m","e","f","o","u","n","d","e","r","s",".","c","o","m">>,  \* secondtimefounders.com
    <<"t","r","w","i","h",".","c","o","m">>,  \* trwih.com
    <<"b","a","r","b","a","r","a","l","e","e","f","o","r","c","o","n","g","r","e","s","s",".","o","r","g">>,  \* barbaraleeforcongress.org
    <<"c",".","h","e","l","l","o","f","r","e","s","h",".","c","o","m">>,  \* c.hellofresh.com
    <<"e","m","a","i","l",".","t","i","c","k","e","t","m","a","s","t","e","r",".","c","o","m">>,  \* email.ticketmaster.com
    <<"r","o","k","t","p","o","w","e","r","e","d",".","c","o","m">>,  \* roktpowered.com
    <<"1","0","1","d","o","m","a","i","n",".","c","o","m">>,  \* 101domain.com
    <<"s","i","m","o","n","s","f","o","u","n","d","a","t","i","o","n",".","o","r","g">>,  \* simonsfoundation.org
    <<"s","l","a","c","k",".","z","e","n","d","e","s","k",".","c","o","m">>,  \* slack.zendesk.com
    <<"c","o","n","t","a","c","t",".","e","x","p","l","o","r","a","t","o","r","i","u","m",".","e","d","u">>,  \* contact.exploratorium.edu
    <<"y","i","m","b","y","a","c","t","i","o","n",".","o","r","g">>,  \* yimbyaction.org
    <<"e",".","g","i","f","f","o","r","d","s",".","o","r","g">>,  \* e.giffords.org
    <<"e",".","v","o","t","e","v","e","t","s",".","o","r","g">>,  \* e.votevets.org
    <<"e",".","e","l","i","s","s","a","s","l","o","t","k","i","n",".","o","r","g">>,  \* e.elissaslotkin.org
    <<"e",".","c","h","r","i","s","p","a","p","p","a","s",".","o","r","g">>,  \* e.chrispappas.org
    <<"f","o","e",".","o","r","g">>,  \* foe.org
    <<"m","a","i","l",".","h","a","l","l","o","w",".","c","o","m">>,  \* mail.hallow.com
    <<"e",".","r","o","a","d","t","r","i","p","p","e","r","s",".","c","o","m">>,  \* e.roadtrippers.com
    <<"e",".","s","t","a","r","b","u","c","k","s",".","c","o","m">>,  \* e.starbucks.com
    <<"n","e","w","s","l","e","t","t","e","r",".","t","r","i","p",".","c","o","m">>,  \* newsletter.trip.com
    <<"2","3","a","n","d","m","e",".","c","o","m">>,  \* 23andme.com
    <<"b","o","o","k","c","r","o","s","s","i","n","g",".","c","o","m">>,  \* bookcrossing.com
    <<"p","e","a","k","d","e","s","i","g","n",".","c","o","m">>,  \* peakdesign.com
    <<"b","a","r","k",".","c","o">>,  \* bark.co
    <<"e","m","a","i","l","s",".","w","y","n","d","h","a","m","h","o","t","e","l","s",".","c","o","m">>,  \* emails.wyndhamhotels.com
    <<"f","l","u","e","n","t",".","p","e","t">>,  \* fluent.pet
    <<"m","a","i","l","o","u","t",".","p","l","e","x",".","t","v">>,  \* mailout.plex.tv
    <<"c","t","o","c","o","n","n","e","c","t","i","o","n",".","c","o","m">>,  \* ctoconnection.com
    <<"c","h","e","w","y",".","c","o","m">>,  \* chewy.com
    <<"e",".","v","a","c","a","s","a",".","c","o","m">>,  \* e.vacasa.com
    <<"j","o","i","n",".","n","e","t","f","l","i","x",".","c","o","m">>,  \* join.netflix.com
    <<"e",".","w","o","r","l","d","n","o","m","a","d","s",".","c","o","m">>,  \* e.worldnomads.com
    <<"t","o","n","a","l",".","c","o","m">>,  \* tonal.com
    <<"m","s","c","h","f",".","c","o","m">>,  \* mschf.com
    <<"a","n","n","o","u","n","c","e","m","e","n","t","s",".","s","o","u","n","d","c","l","o","u","d",".","c","o","m">>,  \* announcements.soundcloud.com
    <<"u","p","d","a","t","e","s",".","m","i","r","o",".","c","o","m">>,  \* updates.miro.com
    <<"i","n","f","o",".","h","a","y","m","a","r","k","e","t","m","e","d","i","c","a","l","n","e","t","w","o","r","k",".","c","o","m">>,  \* info.haymarketmedicalnetwork.com
    <<"b","a","u","k","u","n","s","t",".","c","o">>,  \* baukunst.co
    <<"l","a","t","e","c","h","e","c","k","o","u","t",".","s","t","u","d","i","o">>,  \* latecheckout.studio
    <<"n","o","t","i","f","i","c","a","t","i","o","n","s",".","r","o",".","c","o">>,  \* notifications.ro.co
    <<"t","h","e","l","o","s","t","c","h","u","r","c","h",".","o","r","g">>,  \* thelostchurch.org
    <<"n","a","n","i","t",".","c","o","m">>,  \* nanit.com
    <<"n","a","m","e","c","h","e","a","p",".","c","o","m">>,  \* namecheap.com
    <<"a","u","t","o","d","e","s","k","c","o","m","m","u","n","i","c","a","t","i","o","n","s",".","c","o","m">>,  \* autodeskcommunications.com
    <<"s","e","n","s","i","b","o",".","c","o","m">>,  \* sensibo.com
    <<"e",".","e","l","e","c","t","j","o","n",".","c","o","m">>,  \* e.electjon.com
    <<"t","e","c","h","c","r","u","n","c","h",".","c","o","m">>,  \* techcrunch.com
    <<"a","u","d","i","b","l","e",".","c","o","m">>,  \* audible.com
    <<"v","c","i","t","a",".","c","o","m">>,  \* vcita.com
    <<"e","m","a","i","l",".","1","p","a","s","s","w","o","r","d",".","c","o","m">>,  \* email.1password.com
    <<"m","a","i","l",".","c","o","i","n","b","a","s","e",".","c","o","m">>,  \* mail.coinbase.com
    <<"t","w","i","t","c","h",".","t","v">>,  \* twitch.tv
    <<"s","l","a","c","k",".","c","o","m">>,  \* slack.com
    <<"m","a","i","l",".","a","i","r","t","a","b","l","e",".","c","o","m">>,  \* mail.airtable.com
    <<"m","n",".","c","o">>,  \* mn.co
    <<"t","h","e","k","l","a",".","c","o","m">>,  \* thekla.com
    <<"m","e","s","s","a","g","i","n","g",".","s","q","u","a","r","e","u","p",".","c","o","m">>,  \* messaging.squareup.com
    <<"b","u","t","t","e","r","a","n","d",".","c","o","m">>,  \* butterand.com
    <<"a","n","d","r","o","i","d","j","o","n","e","s",".","c","o","m">>,  \* androidjones.com
    <<"b","a","b","a","l","o","u",".","c","o","m">>,  \* babalou.com
    <<"c","r","a","i","g","s","l","i","s","t",".","o","r","g">>,  \* craigslist.org
    <<"r","e","p","l","y",".","c","r","a","i","g","s","l","i","s","t",".","o","r","g">>,  \* reply.craigslist.org
    <<"g","r","e","g","a","n","g","e","l","o",".","c","o","m">>,  \* gregangelo.com
    <<"t","e","x","a","s","e","x","e","s","e","m","a","i","l",".","c","o","m">>,  \* texasexesemail.com
    <<"p","r","o","o","f","r","e",".","c","o","m">>,  \* proofre.com
    <<"q","r","z","c","q",".","c","o","m">>,  \* qrzcq.com
    <<"b","a","r","s","z","r","a","n","c","h",".","c","o","m">>,  \* barszranch.com
    <<"e",".","s","m","a","r","t","n","e","w","s",".","c","o","m">>,  \* e.smartnews.com
    <<"t","h","e","c","l","y","m","b",".","c","o","m">>,  \* theclymb.com
    <<"i","s",".","e","m","a","i","l",".","n","e","x","t","d","o","o","r",".","c","o","m">>,  \* is.email.nextdoor.com
    <<"r","e","p","l","y",".","c","h","a","r","g","e","p","o","i","n","t",".","c","o","m">>,  \* reply.chargepoint.com
    <<"t","e","a","m",".","t","w","i","l","i","o",".","c","o","m">>,  \* team.twilio.com
    <<"e",".","d","e","b","h","a","a","l","a","n","d",".","c","o","m">>,  \* e.debhaaland.com
    <<"r","a","c","k","w","a","r","e","h","o","u","s","e",".","c","o","m">>,  \* rackwarehouse.com
    <<"p","a","w","s",".","p","e","t","m","e","d","s",".","c","o","m">>,  \* paws.petmeds.com
    <<"k","o","c","h","d","a","v","i","s","j","o","b","s",".","c","o","m">>,  \* kochdavisjobs.com
    <<"f","i","g","h","t","f","o","r","t","h","e","f","u","t","u","r","e",".","o","r","g">>,  \* fightforthefuture.org
    <<"y","o","u","t","u","b","e",".","c","o","m">>,  \* youtube.com
    <<"o","u","t","r","e","a","c","h",".","a","s","s","e","m","b","l","y",".","c","a",".","g","o","v">>,  \* outreach.assembly.ca.gov
    <<"c","a","t","m","a","c","h","i","n",".","c","o","m">>,  \* catmachin.com
    <<"i","n","f","o",".","b","l","u","e","s","h","i","e","l","d","c","a",".","c","o","m">>,  \* info.blueshieldca.com
    <<"m","a","i","l","g","u","n",".","g","i","n","g","r","a","p","p",".","c","o","m">>,  \* mailgun.gingrapp.com
    <<"c","o","n","n","e","c","t",".","o","t","h","e","r","s","h","i","p",".","u","s">>,  \* connect.othership.us
    <<"p","o","l","y","t","r","o","p","e",".","c","o","m">>,  \* polytrope.com
    <<"g","r","e","a","t","h","i","g","h","w","a","y","p","a","r","k",".","c","o","m">>,  \* greathighwaypark.com
    <<"l","i","n","k","e","d","i","n",".","c","o","m">>,  \* linkedin.com
    <<"r","e","d","h","e","r","o","n",".","c","o","m">>,  \* redheron.com
    <<"l","a","b","c","o","r","p","m","e","s","s","a","g","e",".","c","o","m">>,  \* labcorpmessage.com
    <<"e","m","a","i","l",".","m","o","d","e","r","n","a","n","i","m","a","l",".","c","o","m">>,  \* email.modernanimal.com
    <<"e",".","h","e","a","l","i","o",".","c","o","m">>,  \* e.healio.com
    <<"e","m","a","i","l",".","c","l","a","s","s","m","a","t","e","s",".","c","o","m">>,  \* email.classmates.com
    <<"f","a","l","s","e","-","p","r","o","f","i","t",".","c","o","m">>,  \* false-profit.com
    <<"h","e","a","t","h","c","e","r","a","m","i","c","s",".","c","o","m">>,  \* heathceramics.com
    <<"v","o","w","e","l",".","c","o","m">>,  \* vowel.com
    <<"e","m","a","i","l",".","v","e","n","m","o",".","c","o","m">>,  \* email.venmo.com
    <<"w","a","k","e","t","h","e","t","a","l","k","u","p",".","c","o","m">>,  \* wakethetalkup.com
    <<"e","n","g","i","n","e","e","r","e","d","a","r","t","w","o","r","k","s",".","c","o","m">>,  \* engineeredartworks.com
    <<"d","u","o","l","i","n","g","o",".","c","o","m">>,  \* duolingo.com
    <<"e","m",".","s","h","u","t","t","e","r","f","l","y",".","c","o","m">>,  \* em.shutterfly.com
    <<"v","a","g","a","r","o",".","c","o","m">>,  \* vagaro.com
    <<"r","e","t","a","i","n","h","r",".","c","o","m">>,  \* retainhr.com
    <<"m","a","r","k","e","t","i","n","g",".","c","o","v","e","r","e","d","c","a",".","c","o","m">>,  \* marketing.coveredca.com
    <<"e",".","s","i","m","o","n","m","e","d",".","c","o","m">>,  \* e.simonmed.com
    <<"g",".","h","e","l","l","o","f","r","e","s","h",".","c","o","m">>,  \* g.hellofresh.com
    <<"v","i","s","a","p","r","e","p","a","i","d","p","r","o","c","e","s","s","i","n","g",".","c","o","m">>,  \* visaprepaidprocessing.com
    <<"s","e","r","v","i","c","e",".","a","l","i","b","a","b","a",".","c","o","m">>,  \* service.alibaba.com
    <<"e","n","g","a","g","e",".","m","i","c","r","o","s","o","f","t",".","c","o","m">>,  \* engage.microsoft.com
    <<"n","o","t","i","c","e","s",".","r","e","i",".","c","o","m">>,  \* notices.rei.com
    <<"g","o","d","a","d","d","y",".","c","o","m">>,  \* godaddy.com
    <<"f","r","a","n","k","e","n","f","o","r","i","o","w","a",".","o","r","g">>,  \* frankenforiowa.org
    <<"f","l","o","c","k","s","a","f","e","t","y",".","c","o","m">>,  \* flocksafety.com
    <<"u","n","i","t","y","3","d",".","c","o","m">>,  \* unity3d.com
    <<"d","n","u","k","e",".","c","o","m">>,  \* dnuke.com
    <<"a","v","i","m","a","r","k","1",".","c","o","m">>,  \* avimark1.com
    <<"s","a","g","e","b","i","o","n","e","t","w","o","r","k","s",".","o","r","g">>,  \* sagebionetworks.org
    <<"s","p","a","e","r","o",".","b","i","o">>,  \* spaero.bio
    <<"m","e","a","l","t","r","a","i","n",".","c","o","m">>,  \* mealtrain.com
    <<"c","a","m","p","a","i","g","n",".","e","v","e","n","t","b","r","i","t","e",".","c","o","m">>,  \* campaign.eventbrite.com
    <<"g",".","k","a","j","a","b","i","m","a","i","l",".","n","e","t">>,  \* g.kajabimail.net
    <<"c",".","k","a","j","a","b","i","m","a","i","l",".","n","e","t">>,  \* c.kajabimail.net
    <<"m","r","k","t","g","l","l","r","y",".","c","o","m">>,  \* mrktgllry.com
    <<"g","l","o","b","a","l","d","a","t","a","m","a","r","k","e","t","p","l","a","c","e",".","c","o","m">>,  \* globaldatamarketplace.com
    <<"m","e",".","k","i","c","k","s","t","a","r","t","e","r",".","c","o","m">>,  \* me.kickstarter.com
    <<"j","o","s","h","s","h","a","p","i","r","o",".","o","r","g">>,  \* joshshapiro.org
    <<"m","a","i","l",".","k","e","e","p","s",".","c","o","m">>,  \* mail.keeps.com
    <<"m","a","i","l",".","l","a","k","e","s","h","o","r","e","l","e","a","r","n","i","n","g",".","c","o","m">>,  \* mail.lakeshorelearning.com
    <<"f","o","g","c","i","t","y","d","o","g","s",".","c","o","m">>,  \* fogcitydogs.com
    <<"e",".","f","a","s","t","c","o","m","p","a","n","y",".","c","o","m">>,  \* e.fastcompany.com
    <<"o","n","e","m","e","d","i","c","a","l",".","c","o","m">>,  \* onemedical.com
    <<"h","o","n","e","y","h","o","m","e","s",".","c","o","m">>,  \* honeyhomes.com
    <<"l","o","o","k","i","n","g","u","p",".","a","r","t">>,  \* lookingup.art
    <<"c","l","i","m","a","t","e","t","e","c","h","a","c","t","i","o","n",".","n","e","t","w","o","r","k">>,  \* climatetechaction.network
    <<"c","r","u","n","c","h","l","a","b","s",".","c","o","m">>,  \* crunchlabs.com
    <<"p","r","o","d","u","c","t","h","u","n","t",".","c","o","m">>,  \* producthunt.com
    <<"m","a","i","l",".","a","d","o","b","e",".","c","o","m">>,  \* mail.adobe.com
    <<"1","7","3","3","6","6","9","3","7",".","m","a","i","l","c","h","i","m","p","a","p","p",".","c","o","m">>,  \* 173366937.mailchimpapp.com
    <<"k","i","m","b","l","e","g","r","o","u","p",".","c","o","m">>,  \* kimblegroup.com
    <<"h","a","z","a","r","d","f","a","c","t","o","r","y",".","o","r","g">>,  \* hazardfactory.org
    <<"s","s",".","e","m","a","i","l",".","n","e","x","t","d","o","o","r",".","c","o","m">>,  \* ss.email.nextdoor.com
    <<"s","p","o","r","t","s","b","a","s","e","m","e","n","t",".","c","o","m">>,  \* sportsbasement.com
    <<"o","n","l","i","n","e","b","o","o","k","c","l","u","b",".","o","r","g">>,  \* onlinebookclub.org
    <<"m","a","n","i","f","o","l","d",".","m","a","r","k","e","t","s">>  \* manifold.markets
  }

\* The sets REVIEW_SENDERS may hold.  The program ships it empty; its comment
\* asks for senders to be added to it, so the run is also checked with entries
\* in it (lowercase, as the entries of a matcher set are meant to be).
ReviewChoices ==
    { {}, {<<"b","o","s","s">>} }

\* ------------------------------------------------------------------ emails
\* The content of a file: not JSON at all, a JSON value that is no object, or an
\* object whose "from" and "subject" are absent, null or a text.
Field(kind, text) == [kind |-> kind, text |-> text]
Absent == Field("absent", <<>>)
Null == Field("null", <<>>)
Text(s) == Field("text", s)
File(json, from, subject) == [json |-> json, from |-> from, subject |-> subject]
BadJson == File("invalid", Absent, Absent)
JsonList == File("list", Absent, Absent)
Email(from) == File("object", from, Absent)

\* --------------------------------------------------- the inputs of a run
SubstackX == <<"x","@","s","u","b","s","t","a","c","k",".","c","o","m">>
UnknownY == <<"Y","@","U","n","k","n","o","w","n",".","o","r","g">>
UnknownZ == <<"Z"," ","<","z","@","u","n","k","n","o","w","n",".","o","r","g",">">>
BossSubstack == <<"B","o","s","s","@","S","u","b","s","t","a","c","k",".","c","o","m">>
Senders == {SubstackX, UnknownY, UnknownZ, BossSubstack}

RunContents ==
    {BadJson, JsonList, Email(Null), Email(Absent)} \cup {Email(Text(s)) : s \in Senders}


\* ------------------------------------------ the inputs of the sender matcher
\* every entry of the archive set as a sender text, bare and as the address of
\* a sender with a display name
Display == <<"N","e","w","s"," ","<","i","n","f","o","@">>
MatcherTexts ==
    Senders \cup ARCHIVE_SENDERS \cup {Display \o p \o <<">">> : p \in ARCHIVE_SENDERS}

Emails == RunContents \cup {Email(Text(s)) : s \in MatcherTexts}

\* email.get(key, default) of an object
Get(field, default) == IF field.kind = "absent" THEN Text(default) ELSE field

\* email.get("from", "").lower() raises AttributeError: email is no dict, or the
\* value of "from" is no str
Raises(email) == email.json # "object" \/ email.from.kind # "text"

FromAddr(email) == lower(Get(email.from, <<>>).text)

should_archive(email) ==
    \E pattern \in ARCHIVE_SENDERS : Contains(pattern, FromAddr(email))

needs_review(email, review) ==
    \E pattern \in review : Contains(pattern, FromAddr(email))

\* Classify with the two tests in the other order
ClassifyArchiveFirst(email, review) ==
    IF should_archive(email) THEN "archive"
    ELSE IF needs_review(email, review) THEN "review"
    ELSE "unknown"

\* should_archive of every email of the model, computed once
ArchiveTable == [email \in Emails |-> should_archive(email)]

\* the branch the loop body of main takes for a parsed email
Classify(email, review) ==
    IF needs_review(email, review) THEN "review"
    ELSE IF ArchiveTable[email] THEN "archive"
    ELSE "unknown"

\* get_domain keeping all that follows the first "@"
get_domainRest(from_addr) ==
    LET addr == IF Contains(<<"<">>, from_addr)
                THEN split(split(from_addr, "<")[2], ">")[1]
                ELSE from_addr
        at == Find("@", addr)
    IN  IF at > 0
        THEN lower(SubSeq(addr, at + 1, Len(addr)))
        ELSE Prefix(lower(addr), 50)

FallbackLen == 50

get_domain(from_addr) ==
    LET addr == IF Contains(<<"<">>, from_addr)
                THEN split(split(from_addr, "<")[2], ">")[1]
                ELSE from_addr
    IN  IF Contains(<<"@">>, addr)
        THEN lower(split(addr, "@")[2])
        ELSE Prefix(lower(addr), FallbackLen)

Unknown == <<"u","n","k","n","o","w","n">>

\* DomainOf with the default of should_archive and needs_review
DomainOfEmptyDefault(email) == get_domain(Get(email.from, <<>>).text)

\* get_domain(email.get("from", "unknown"))
DomainOf(email) == get_domain(Get(email.from, Unknown).text)

\* --------------------------------------------------------------- the state
VARIABLES
    INBOX, TO_ARCHIVE, NEEDS_REVIEW,   \* the three folders
    REVIEW_SENDERS,                    \* the review set of this program text
    pc,             \* "idle" (no run yet on this folder state), "running",
                    \* "done", "aborted" (uncaught exception), "killed"
    files, idx,     \* sorted(INBOX.glob("*.json")) and the loop's position in it
    stats, sender_counts,
    \* history of the runs, read by the properties only
    start,          \* INBOX as the current run found it
    log,            \* what the current run did with each file, in order
    base,           \* the folders as the first run since the last ingestion found them
    prev,           \* how the previous run on this folder state ended
    moveLog,        \* the names moved since base
    runs, ingests,
    \* the sender matcher and the domain extractor applied to one input
    fn_pc, fn_email, fn_class, fn_domain,
    \* sample_emails
    s_pc, s_dir, s_count, s_search, s_i, s_matches, s_recent

folders == <<INBOX, TO_ARCHIVE, NEEDS_REVIEW>>
runVars == <<pc, files, idx, stats, sender_counts, start, log, base, prev, moveLog, runs, ingests>>
fnVars == <<fn_pc, fn_email, fn_class, fn_domain>>
sampleVars == <<s_pc, s_dir, s_count, s_search, s_i, s_matches, s_recent>>
vars == <<folders, REVIEW_SENDERS, runVars, fnVars, sampleVars>>

Names == 1..NumNames

\* the folders a set of names can hold with the given contents
Folders(contents) == UNION {[S -> contents] : S \in SUBSET Names}

EmptyFolder == [n \in {} |-> BadJson]

\* sorted(names)
RECURSIVE Sorted(_)
Sorted(S) ==
    IF S = {} THEN <<>>
    ELSE LET m == CHOOSE x \in S : \A y \in S : x <= y
         IN  <<m>> \o Sorted(S \ {m})

\* Remove that leaves the file where it is (a copy, not a move)
RemoveKeeps(folder, name) == folder

\* Put that leaves a file already in the destination as it is
PutUnlessThere(folder, name, email) ==
    [n \in DOMAIN folder \cup {name} |-> IF n \in DOMAIN folder THEN folder[n] ELSE email]

\* shutil.move(src / name, dst / name): the file leaves src and is dst's file of
\* that name, replacing one that was there
Remove(folder, name) == [n \in DOMAIN folder \ {name} |-> folder[n]]
Put(folder, name, email) ==
    [n \in DOMAIN folder \cup {name} |-> IF n = name THEN email ELSE folder[n]]

\* Increment that sets the count to 1 (sender_counts[domain] = 1)
IncrementSets(counts, key) ==
    [k \in DOMAIN counts \cup {key} |-> IF k = key THEN 1 ELSE counts[k]]

\* sender_counts[domain] += 1 of a defaultdict(int)
Increment(counts, key) ==
    [k \in DOMAIN counts \cup {key} |->
        IF k = key THEN (IF k \in DOMAIN counts THEN counts[k] + 1 ELSE 1)
        ELSE counts[k]]

ZeroStats == [archive |-> 0, review |-> 0, unknown |-> 0]
NoRun == [status |-> "none", stats |-> ZeroStats, counts |-> EmptyFolder, moves |-> 0]
NoBase == <<EmptyFolder, EmptyFolder, EmptyFolder>>

Moves(l) == Cardinality({i \in 1..Len(l) : l[i].outcome \in {"review", "archive"}})

RunIdle ==
    /\ pc = "idle" /\ files = <<>> /\ idx = 1
    /\ stats = ZeroStats /\ sender_counts = EmptyFolder
    /\ start = EmptyFolder /\ log = <<>> /\ base = NoBase /\ prev = NoRun
    /\ moveLog = <<>> /\ runs = 0 /\ ingests = 0

FnIdle == fn_pc = "off" /\ fn_email = BadJson /\ fn_class = "" /\ fn_domain = <<>>

SampleIdle ==
    /\ s_pc = "off" /\ s_dir = EmptyFolder /\ s_count = 0 /\ s_search = <<>>
    /\ s_i = 1 /\ s_matches = <<>> /\ s_recent = <<>>

Init ==
    /\ INBOX \in Folders(RunContents)
    /\ TO_ARCHIVE = EmptyFolder
    /\ NEEDS_REVIEW = EmptyFolder
    /\ REVIEW_SENDERS \in ReviewChoices
    /\ RunIdle /\ FnIdle /\ SampleIdle

\* ------------------------------------------------------------- the run
Entry(name, email, outcome) == [name |-> name, email |-> email, outcome |-> outcome]

\* main() up to the loop
Start ==
    /\ pc \in {"idle", "done", "aborted", "killed"}
    /\ runs < MaxRuns
    /\ pc' = "running"
    /\ runs' = runs + 1
    /\ files' = Sorted(DOMAIN INBOX)
    /\ idx' = 1
    /\ stats' = ZeroStats
    /\ sender_counts' = EmptyFolder
    /\ start' = INBOX
    /\ log' = <<>>
    /\ base' = IF pc = "idle" THEN folders ELSE base
    /\ prev' = IF pc = "idle" THEN NoRun
               ELSE [status |-> pc, stats |-> stats, counts |-> sender_counts,
                     moves |-> Moves(log)]
    /\ moveLog' = IF pc = "idle" THEN <<>> ELSE moveLog
    /\ UNCHANGED <<folders, REVIEW_SENDERS, ingests, fnVars, sampleVars>>

InLoop == pc = "running" /\ idx <= Len(files)
Current == INBOX[files[idx]]

\* json.load fails: except: continue
SkipUnreadable ==
    /\ InLoop
    /\ Current.json = "invalid"
    /\ idx' = idx + 1
    /\ log' = Append(log, Entry(files[idx], Current, "skip"))
    /\ UNCHANGED <<folders, REVIEW_SENDERS, pc, files, stats, sender_counts, start, base,
                   prev, moveLog, runs, ingests, fnVars, sampleVars>>

\* needs_review(email) raises AttributeError, which nothing catches
RaiseOnEmail ==
    /\ InLoop
    /\ Current.json # "invalid"
    /\ Raises(Current)
    /\ pc' = "aborted"
    /\ log' = Append(log, Entry(files[idx], Current, "raise"))
    /\ UNCHANGED <<folders, REVIEW_SENDERS, files, idx, stats, sender_counts, start, base,
                   prev, moveLog, runs, ingests, fnVars, sampleVars>>

Parsed == InLoop /\ Current.json # "invalid" /\ ~Raises(Current)

MoveToReview ==
    /\ Parsed
    /\ Classify(Current, REVIEW_SENDERS) = "review"
    /\ NEEDS_REVIEW' = Put(NEEDS_REVIEW, files[idx], Current)
    /\ INBOX' = Remove(INBOX, files[idx])
    /\ stats' = [stats EXCEPT !.review = @ + 1]
    /\ idx' = idx + 1
    /\ log' = Append(log, Entry(files[idx], Current, "review"))
    /\ moveLog' = Append(moveLog, files[idx])
    /\ UNCHANGED <<TO_ARCHIVE, REVIEW_SENDERS, pc, files, sender_counts, start, base, prev,
                   runs, ingests, fnVars, sampleVars>>

MoveToArchive ==
    /\ Parsed
    /\ Classify(Current, REVIEW_SENDERS) = "archive"
    /\ TO_ARCHIVE' = Put(TO_ARCHIVE, files[idx], Current)
    /\ INBOX' = Remove(INBOX, files[idx])
    /\ stats' = [stats EXCEPT !.archive = @ + 1]
    /\ idx' = idx + 1
    /\ log' = Append(log, Entry(files[idx], Current, "archive"))
    /\ moveLog' = Append(moveLog, files[idx])
    /\ UNCHANGED <<NEEDS_REVIEW, REVIEW_SENDERS, pc, files, sender_counts, start, base, prev,
                   runs, ingests, fnVars, sampleVars>>

\* shutil.move raises (the destination is unwritable): nothing moves, the run ends
MoveFails ==
    /\ Parsed
    /\ Classify(Current, REVIEW_SENDERS) \in {"review", "archive"}
    /\ pc' = "aborted"
    /\ log' = Append(log, Entry(files[idx], Current,
                 IF Classify(Current, REVIEW_SENDERS) = "review"
                 THEN "review_failed" ELSE "archive_failed"))
    /\ UNCHANGED <<folders, REVIEW_SENDERS, files, idx, stats, sender_counts, start, base,
                   prev, moveLog, runs, ingests, fnVars, sampleVars>>

CountUnknown ==
    /\ Parsed
    /\ Classify(Current, REVIEW_SENDERS) = "unknown"
    /\ stats' = [stats EXCEPT !.unknown = @ + 1]
    /\ sender_counts' = Increment(sender_counts, DomainOf(Current))
    /\ idx' = idx + 1
    /\ log' = Append(log, Entry(files[idx], Current, "unknown"))
    /\ UNCHANGED <<folders, REVIEW_SENDERS, pc, files, start, base, prev, moveLog,
                   runs, ingests, fnVars, sampleVars>>

\* the loop is over: the report is printed and main returns
Finish ==
    /\ pc = "running"
    /\ idx > Len(files)
    /\ pc' = "done"
    /\ UNCHANGED <<folders, REVIEW_SENDERS, files, idx, stats, sender_counts, start, log,
                   base, prev, moveLog, runs, ingests, fnVars, sampleVars>>

\* the process is terminated from outside, between two files
Interrupt ==
    /\ pc = "running"
    /\ pc' = "killed"
    /\ UNCHANGED <<folders, REVIEW_SENDERS, files, idx, stats, sender_counts, start, log,
                   base, prev, moveLog, runs, ingests, fnVars, sampleVars>>

\* the upstream ingestion writes a new file into the inbox while no run is going
\* on; what earlier runs did is no longer about this folder state
Ingest ==
    /\ pc \in {"done", "aborted", "killed"}
    /\ ingests < MaxIngest
    /\ \E name \in Names \ DOMAIN INBOX, email \in RunContents :
          INBOX' = Put(INBOX, name, email)
    /\ ingests' = ingests + 1
    /\ pc' = "idle"
    /\ files' = <<>> /\ idx' = 1 /\ stats' = ZeroStats /\ sender_counts' = EmptyFolder
    /\ start' = EmptyFolder /\ log' = <<>> /\ base' = NoBase /\ prev' = NoRun
    /\ moveLog' = <<>>
    /\ UNCHANGED <<TO_ARCHIVE, NEEDS_REVIEW, REVIEW_SENDERS, runs, fnVars, sampleVars>>

Next ==
    \/ Start
    \/ SkipUnreadable
    \/ RaiseOnEmail
    \/ MoveToReview
    \/ MoveToArchive
    \/ MoveFails
    \/ CountUnknown
    \/ Finish
    \/ Interrupt
    \/ Ingest

Spec == Init /\ [][Next]_vars

\* --------------------------------- the sender matcher applied to one sender
InitClassify ==
    /\ INBOX = EmptyFolder /\ TO_ARCHIVE = EmptyFolder /\ NEEDS_REVIEW = EmptyFolder
    /\ REVIEW_SENDERS \in ReviewChoices
    /\ RunIdle /\ SampleIdle
    /\ fn_pc = "classify"
    /\ fn_email \in {Email(Text(s)) : s \in MatcherTexts}
    /\ fn_class = "" /\ fn_domain = <<>>

\* the if / elif / else of main's loop body, on fn_email
ApplyClassify ==
    /\ fn_pc = "classify"
    /\ fn_pc' = "classified"
    /\ fn_class' = Classify(fn_email, REVIEW_SENDERS)
    /\ UNCHANGED <<folders, REVIEW_SENDERS, runVars, fn_email, fn_domain, sampleVars>>

SpecClassify == InitClassify /\ [][ApplyClassify]_vars

\* ------------------------------ the domain extractor applied to one sender
Alphabet == {"<", ">", "@", "B"}
Strings(n) == UNION {[1..k -> Alphabet] : k \in 0..n}

\* a run of letters that fills all but one place of the fallback key
Padding == [i \in 1..(FallbackLen - 1) |-> "x"]

DomainTexts ==
    {a \o p \o b : a \in Strings(MaxPre), p \in {<<>>, Padding}, b \in Strings(MaxLen)}

InitDomain ==
    /\ INBOX = EmptyFolder /\ TO_ARCHIVE = EmptyFolder /\ NEEDS_REVIEW = EmptyFolder
    /\ REVIEW_SENDERS = {}
    /\ RunIdle /\ SampleIdle
    /\ fn_pc = "domain"
    /\ fn_email \in {Email(Absent)} \cup {Email(Text(s)) : s \in DomainTexts}
    /\ fn_class = "" /\ fn_domain = <<>>

\* domain = get_domain(email.get("from", "unknown")), on fn_email
ApplyDomain ==
    /\ fn_pc = "domain"
    /\ fn_pc' = "extracted"
    /\ fn_domain' = DomainOf(fn_email)
    /\ UNCHANGED <<folders, REVIEW_SENDERS, runVars, fn_email, fn_class, sampleVars>>

SpecDomain == InitDomain /\ [][ApplyDomain]_vars

\* ------------------------------------------------------------ sample_emails
\* The folder exists; the lines the tool prints are not part of the state.
Boss == <<"B","o","s","s">>
SampleContents ==
    { BadJson,
      JsonList,
      File("object", Text(BossSubstack), Absent),
      File("object", Text(UnknownY), Text(Boss)),
      File("object", Text(UnknownY), Absent),
      File("object", Null, Absent) }

\* search is None or "" (both the empty text here), or a text
Searches == {<<>>, <<"B","O","S","S">>}
Counts == (0 - 1)..MaxCount

NoSubject == <<"n","o"," ","s","u","b","j","e","c","t">>
Error == <<"e","r","r","o","r">>

Match(name, sender, subject) == [f |-> name, sender |-> sender, subject |-> subject]

s_files == Sorted(DOMAIN s_dir)
Scanned == s_dir[s_files[s_i]]
Scanning == s_pc = "scan" /\ s_i <= Len(s_files)
Sender(email) == Get(email.from, Unknown)
Subject(email) == Get(email.subject, NoSubject)

\* the body of the try raises: json.load, email.get on a value that is no dict,
\* or .lower() on a value that is no str
ScanRaises(email) ==
    \/ email.json # "object"
    \/ /\ s_search # <<>>
       /\ \/ Sender(email).kind # "text"
          \/ /\ ~Contains(lower(s_search), lower(Sender(email).text))
             /\ Subject(email).kind # "text"

\* search is given and is in neither the sender nor the subject
ScanMisses(email) ==
    /\ s_search # <<>>
    /\ ~Contains(lower(s_search), lower(Sender(email).text))
    /\ ~Contains(lower(s_search), lower(Subject(email).text))

InitSample ==
    /\ INBOX = EmptyFolder /\ TO_ARCHIVE = EmptyFolder /\ NEEDS_REVIEW = EmptyFolder
    /\ REVIEW_SENDERS = {}
    /\ RunIdle /\ FnIdle
    /\ s_pc = "scan"
    /\ s_dir \in Folders(SampleContents)
    /\ s_count \in Counts
    /\ s_search \in Searches
    /\ s_i = 1 /\ s_matches = <<>> /\ s_recent = <<>>

ScanAppend ==
    /\ Scanning
    /\ ~ScanRaises(Scanned)
    /\ ~ScanMisses(Scanned)
    /\ s_matches' = Append(s_matches, Match(s_files[s_i], Sender(Scanned), Subject(Scanned)))
    /\ s_i' = s_i + 1
    /\ UNCHANGED <<folders, REVIEW_SENDERS, runVars, fnVars, s_pc, s_dir, s_count, s_search,
                   s_recent>>

ScanContinue ==
    /\ Scanning
    /\ ~ScanRaises(Scanned)
    /\ ScanMisses(Scanned)
    /\ s_i' = s_i + 1
    /\ UNCHANGED <<folders, REVIEW_SENDERS, runVars, fnVars, s_pc, s_dir, s_count, s_search,
                   s_matches, s_recent>>

\* except Exception as e: the file is listed as an error unless a search is on
ScanExcept ==
    /\ Scanning
    /\ ScanRaises(Scanned)
    /\ s_matches' = IF s_search = <<>>
                    THEN Append(s_matches, Match(s_files[s_i], Text(Error), Text(Error)))
                    ELSE s_matches
    /\ s_i' = s_i + 1
    /\ UNCHANGED <<folders, REVIEW_SENDERS, runVars, fnVars, s_pc, s_dir, s_count, s_search,
                   s_recent>>

\* matches[-count:]
LastSlice(matches, count) ==
    IF count > 0
    THEN SubSeq(matches, (IF Len(matches) > count THEN Len(matches) - count ELSE 0) + 1,
                Len(matches))
    ELSE SubSeq(matches, (IF Len(matches) > 0 - count THEN 0 - count ELSE Len(matches)) + 1,
                Len(matches))

Recent(matches, count) ==
    IF Len(matches) > count THEN LastSlice(matches, count) ELSE matches

SampleReturn ==
    /\ s_pc = "scan"
    /\ s_i > Len(s_files)
    /\ s_recent' = [i \in 1..Len(Recent(s_matches, s_count)) |-> Recent(s_matches, s_count)[i].f]
    /\ s_pc' = "returned"
    /\ UNCHANGED <<folders, REVIEW_SENDERS, runVars, fnVars, s_dir, s_count, s_search, s_i,
                   s_matches>>

NextSample ==
    \/ ScanAppend
    \/ ScanContinue
    \/ ScanExcept
    \/ SampleReturn

SpecSample == InitSample /\ [][NextSample]_vars

\* =================================================================== claims

HasText(email) == email.json = "object" /\ email.from.kind = "text"
Outcomes(l, set) == {i \in 1..Len(l) : l[i].outcome \in set}

\* C1: a file whose sender text, lowercased, contains a string of the review set
\* is sent to the review folder and never to the archive folder, also when a
\* string of the archive set matches it; once moved it is the review folder's
\* file of that name and no longer in the inbox.
C1_ReviewWins ==
    \A i \in 1..Len(log) :
        LET e == log[i]
        IN  (/\ HasText(e.email)
             /\ \E r \in REVIEW_SENDERS : Contains(r, lower(e.email.from.text)))
            => /\ e.outcome \in {"review", "review_failed"}
               /\ e.outcome = "review"
                    => /\ e.name \in DOMAIN NEEDS_REVIEW
                       /\ NEEDS_REVIEW[e.name] = e.email
                       /\ e.name \notin DOMAIN INBOX

\* a finished run moved to review a file that an archive string matches as well
C1_Witness ==
    /\ pc = "done"
    /\ \E i \in 1..Len(log) :
          /\ log[i].outcome = "review"
          /\ \E p \in ARCHIVE_SENDERS : Contains(p, lower(log[i].email.from.text))

\* C2: a sender text that contains an entry of the archive set as the program
\* writes it, and no string of the review set, is classified archive.
C2_EveryArchiveEntryMatches ==
    (/\ fn_pc = "classified"
     /\ \E p \in ARCHIVE_SENDERS : Contains(p, fn_email.from.text)
     /\ ~\E r \in REVIEW_SENDERS : Contains(r, lower(fn_email.from.text)))
    => fn_class = "archive"

Malformed(email) == email.json # "object" \/ email.from.kind = "null"

\* C3: a file with malformed content (no JSON, a JSON value that is no object,
\* a "from" that is no text) is skipped: the run neither moves nor counts it,
\* does not abort on it and goes on with the files after it.
C3_MalformedSkipped ==
    /\ \A i \in 1..Len(log) : Malformed(log[i].email) => log[i].outcome = "skip"
    /\ pc = "done" => Len(log) = Len(files)

SecondRun == pc = "done" /\ prev.status = "done"

FirstOf(chars, text, from) ==
    IF \E i \in (from + 1)..Len(text) : text[i] \in chars
    THEN CHOOSE i \in (from + 1)..Len(text) :
            text[i] \in chars /\ \A j \in (from + 1)..(i - 1) : text[j] \notin chars
    ELSE Len(text) + 1

\* the claim's address: between the first "<" and the first ">" after it when
\* both are there, the whole text otherwise
ClaimedAddress(text) ==
    LET i == FirstOf({"<"}, text, 0)
        j == FirstOf({">"}, text, i)
    IN  IF i <= Len(text) /\ j <= Len(text) THEN SubSeq(text, i + 1, j - 1) ELSE text

\* the address the code takes: from the first "<" to the next "<" or ">" or the
\* end of the text when there is a "<", the whole text otherwise
TakenAddress(text) ==
    LET i == FirstOf({"<"}, text, 0)
    IN  IF i <= Len(text) THEN SubSeq(text, i + 1, FirstOf({"<", ">"}, text, i) - 1)
        ELSE text

HasAt(text) == \E i \in 1..Len(text) : text[i] = "@"
Extracted == fn_pc = "extracted" /\ fn_email.from.kind = "text"

\* C5 (as stated): the domain is everything after the first "@" of the claim's
\* address, lowercased.
C5_FirstMatchParsing ==
    LET addr == ClaimedAddress(fn_email.from.text)
    IN  (Extracted /\ HasAt(addr))
        => fn_domain = lower(SubSeq(addr, FirstOf({"@"}, addr, 0) + 1, Len(addr)))

\* C5 (amended): the address is the text after the first "<" up to the next "<"
\* or ">" or the end of the text when the text has a "<", and the whole text
\* otherwise; when the address has an "@" the domain is the part of it between
\* its first "@" and its second "@" (or its end), lowercased.
C5_SplitParsing ==
    LET addr == TakenAddress(fn_email.from.text)
        at == FirstOf({"@"}, addr, 0)
    IN  (Extracted /\ HasAt(addr))
        => fn_domain = lower(SubSeq(addr, at + 1, FirstOf({"@"}, addr, at) - 1))

\* the domain of a bracketed address with two "@" and an uppercase letter in
\* the part that is kept
C5_Witness ==
    /\ Extracted
    /\ \E i \in 1..Len(fn_email.from.text) : fn_email.from.text[i] = "<"
    /\ Cardinality({i \in 1..Len(TakenAddress(fn_email.from.text)) :
                      TakenAddress(fn_email.from.text)[i] = "@"}) = 2
    /\ fn_domain = <<"b">>

\* C6 (as stated): without an "@" in the address the key is the first 50
\* characters of the original sender text, lowercased, and a record with no
\* sender field gets the key of the empty text.
C6_FallbackOfOriginalText ==
    /\ (Extracted /\ ~HasAt(ClaimedAddress(fn_email.from.text)))
          => fn_domain = Prefix(lower(fn_email.from.text), FallbackLen)
    /\ (fn_pc = "extracted" /\ fn_email.from.kind = "absent")
          => fn_domain = get_domain(<<>>)

\* C6 (amended): without an "@" in the address the code takes (see C5), the key
\* is the first 50 characters of that address, lowercased, which for the empty
\* text is the empty text; a record with no sender field gets the key "unknown".
\* ("B" is the one uppercase letter of the texts the extractor is given.)
C6_FallbackOfAddress ==
    LET addr == TakenAddress(fn_email.from.text)
    IN  /\ (Extracted /\ ~HasAt(addr))
              => /\ Len(fn_domain) = (IF Len(addr) < FallbackLen THEN Len(addr)
                                      ELSE FallbackLen)
                 /\ \A i \in 1..Len(fn_domain) :
                       fn_domain[i] = (IF addr[i] = "B" THEN "b" ELSE addr[i])
        /\ (Extracted /\ fn_email.from.text = <<>>) => fn_domain = <<>>
        /\ (fn_pc = "extracted" /\ fn_email.from.kind = "absent")
              => fn_domain = <<"u","n","k","n","o","w","n">>

\* the key of a bracketed address without "@" that is longer than the key
C6_Witness ==
    /\ Extracted
    /\ ~HasAt(TakenAddress(fn_email.from.text))
    /\ Len(TakenAddress(fn_email.from.text)) > FallbackLen
    /\ Len(fn_email.from.text) > Len(TakenAddress(fn_email.from.text))
    /\ Len(fn_domain) = FallbackLen
    /\ fn_domain[FallbackLen] = "b"

\* C7: with 0 <= count < len(matches) the result is the last count matches in
\* the order of the listing, and it never has more than count entries.
C7_LastCountMatches ==
    (s_pc = "returned" /\ 0 <= s_count /\ s_count < Len(s_matches))
    => /\ Len(s_recent) <= s_count
       /\ s_recent = [i \in 1..s_count |-> s_matches[Len(s_matches) - s_count + i].f]

RECURSIVE Total(_)
Total(counts) ==
    IF DOMAIN counts = {} THEN 0
    ELSE LET k == CHOOSE x \in DOMAIN counts : TRUE
         IN  counts[k] + Total([j \in DOMAIN counts \ {k} |-> counts[j]])

Readable(folder) == {n \in DOMAIN folder : folder[n].json # "invalid"}
ClassifiedAs(folder, class) ==
    {n \in Readable(folder) : Classify(folder[n], REVIEW_SENDERS) = class}

Moved(b, class) ==
    {n \in Readable(b[1]) : ~Raises(b[1][n]) /\ Classify(b[1][n], REVIEW_SENDERS) = class}
Overlay(folder, from, names) ==
    [n \in DOMAIN folder \cup names |-> IF n \in names THEN from[n] ELSE folder[n]]
Placement(b) ==
    << [n \in DOMAIN b[1] \ (Moved(b, "archive") \cup Moved(b, "review")) |-> b[1][n]],
       Overlay(b[2], b[1], Moved(b, "archive")),
       Overlay(b[3], b[1], Moved(b, "review")) >>

Copies(name, email) ==
    Cardinality({i \in 1..3 : name \in DOMAIN folders[i] /\ folders[i][name] = email})

\* C10: a step of a run deletes no record: every file of the three folders is,
\* with its content, in as many folders after the step as before it.
C10_NoRecordDeleted ==
    [][pc = "running" =>
          \A name \in Names, email \in RunContents : Copies(name, email)' = Copies(name, email)]_vars
====
